---- MODULE Spec2Model ----
(***************************************************************************)
(* Custom slash commands (codex-rs/tui/src/custom_slash_command.rs).       *)
(*                                                                         *)
(* Strings are sequences of one-character strings, paths are sequences of *)
(* components, and the file system is a set of regular files (each with   *)
(* its content) plus a set of directories.  expand_custom_command and     *)
(* discover_custom_commands are translated statement by statement.        *)
(***************************************************************************)
EXTENDS Integers, Sequences, FiniteSets, Bags, TLC

(* ------------------------------------------------------------------ *)
(* Bounds                                                              *)
(* ------------------------------------------------------------------ *)

\* Largest number of regular files a file system of the model holds.
MaxFiles == 2

(* ------------------------------------------------------------------ *)
(* Characters and str primitives                                       *)
(* ------------------------------------------------------------------ *)

\* A byte that is not valid UTF-8 (OsStr::to_str fails on a name holding it).
BadByte == "\\xFF"

\* char::is_whitespace on the characters the model uses.
is_whitespace(c) == c \in {" ", "\t", "\n"}

\* The separator of std::path on the platform of the tests (unix).
MAIN_SEPARATOR == "/"

\* The placeholder literal "$ARGUMENTS".
PLACEHOLDER == <<"$", "A", "R", "G", "U", "M", "E", "N", "T", "S">>

\* s[from..] (1-based, from may be Len(s)+1).
slice_from(s, from) == SubSeq(s, from, Len(s))

\* Whether pat occurs in s at position i.
matches_at(s, pat, i) ==
    /\ i + Len(pat) - 1 <= Len(s)
    /\ \A k \in 1..Len(pat) : s[i + k - 1] = pat[k]

\* str::starts_with
starts_with(s, pat) == matches_at(s, pat, 1)

\* str::find: the index of the first occurrence of pat, 0 for None.
RECURSIVE find_from(_, _, _)
find_from(s, pat, i) ==
    IF i + Len(pat) - 1 > Len(s) THEN 0
    ELSE IF matches_at(s, pat, i) THEN i
    ELSE find_from(s, pat, i + 1)

find(s, pat) == find_from(s, pat, 1)

\* str::trim_start and str::trim_end
RECURSIVE trim_start(_)
trim_start(s) ==
    IF s # <<>> /\ is_whitespace(s[1]) THEN trim_start(Tail(s)) ELSE s

RECURSIVE trim_end(_)
trim_end(s) ==
    IF s # <<>> /\ is_whitespace(s[Len(s)])
    THEN trim_end(SubSeq(s, 1, Len(s) - 1)) ELSE s

\* str::trim: strips leading and trailing whitespace.
trim(s) == trim_end(trim_start(s))

\* str::replace: every non-overlapping match of pat, found left to right in
\* the original string, is replaced by to; the result is not scanned again.
RECURSIVE replace_from(_, _, _, _)
replace_from(s, pat, to, i) ==
    IF i > Len(s) THEN <<>>
    ELSE IF matches_at(s, pat, i)
         THEN to \o replace_from(s, pat, to, i + Len(pat))
         ELSE <<s[i]>> \o replace_from(s, pat, to, i + 1)

replace(s, pat, to) == replace_from(s, pat, to, 1)

\* str::trim_end_matches: strips the suffix pat repeatedly.
RECURSIVE trim_end_matches(_, _)
trim_end_matches(s, pat) ==
    IF Len(s) >= Len(pat) /\ matches_at(s, pat, Len(s) - Len(pat) + 1)
    THEN trim_end_matches(SubSeq(s, 1, Len(s) - Len(pat)), pat)
    ELSE s

\* u8::to_ascii_lowercase on the characters the model uses: only A-Z change.
to_ascii_lowercase(c) ==
    CASE c = "F" -> "f"
      [] c = "M" -> "m"
      [] c = "D" -> "d"
      [] OTHER -> c

\* str::make_ascii_lowercase
make_ascii_lowercase(s) == [i \in 1..Len(s) |-> to_ascii_lowercase(s[i])]

\* splitn(2, ' '): <<first, rest>>; rest is <<"None">> when s has no space.
splitn2(s) ==
    LET idx == find(s, <<" ">>)
    IN  IF idx = 0 THEN <<s, <<"None">>>>
        ELSE <<SubSeq(s, 1, idx - 1), <<"Some", slice_from(s, idx + 1)>>>>

(* ------------------------------------------------------------------ *)
(* std::path                                                           *)
(* ------------------------------------------------------------------ *)

\* The pieces of s between occurrences of the character sep: split_at
\* scans s from position i with the piece begun at position from.
RECURSIVE split_at(_, _, _, _)
split_at(s, sep, from, i) ==
    IF i > Len(s) THEN <<SubSeq(s, from, Len(s))>>
    ELSE IF s[i] = sep THEN <<SubSeq(s, from, i - 1)>> \o split_at(s, sep, i + 1, i + 1)
    ELSE split_at(s, sep, from, i + 1)

split(s, sep) == split_at(s, sep, 1, 1)

\* The pieces joined by the string sep.
RECURSIVE join_str(_, _)
join_str(pieces, sep) ==
    IF Len(pieces) = 0 THEN <<>>
    ELSE IF Len(pieces) = 1 THEN pieces[1]
    ELSE pieces[1] \o sep \o join_str(Tail(pieces), sep)

\* Path::is_absolute (unix): the path string starts with the separator.
is_absolute(p) == starts_with(p, <<MAIN_SEPARATOR>>)

\* Path::components of an absolute path, without the leading RootDir:
\* repeated separators and "." are dropped, ".." is kept as it is written.
components(p) ==
    SelectSeq(split(p, MAIN_SEPARATOR), LAMBDA c : c # <<>> /\ c # <<".">>)

\* Path::join: an absolute argument replaces the base, a relative one is
\* appended after a separator.
path_join(base, rel) ==
    IF is_absolute(rel) THEN rel
    ELSE IF base # <<>> /\ base[Len(base)] = MAIN_SEPARATOR THEN base \o rel
    ELSE base \o <<MAIN_SEPARATOR>> \o rel

\* Whether the sequence a is a prefix of the sequence b.
is_prefix(a, b) == Len(a) <= Len(b) /\ SubSeq(b, 1, Len(a)) = a

\* Path::starts_with: component-wise prefix, nothing is resolved.
path_starts_with(p, base) ==
    /\ is_absolute(p) = is_absolute(base)
    /\ is_prefix(components(base), components(p))

\* The path string of a component sequence of the file system.
path_string(comps) == <<MAIN_SEPARATOR>> \o join_str(comps, <<MAIN_SEPARATOR>>)

(* ------------------------------------------------------------------ *)
(* The file system and the environment                                 *)
(* ------------------------------------------------------------------ *)

\* The caller's project root (the cwd argument, and env::current_dir()).
Cwd == <<<<"p">>>>

\* The value of HOME when it is set.
HomeDir == <<<<"h">>>>

\* ".codex/commands", the literal both functions join onto their base.
COMMANDS_DIR == <<".", "c", "o", "d", "e", "x", "/", "c", "o", "m", "m", "a", "n", "d", "s">>

\* The two scope roots, as component sequences of the file system.
ProjRoot == components(path_join(path_string(Cwd), COMMANDS_DIR))
HomeRoot == components(path_join(path_string(HomeDir), COMMANDS_DIR))

\* A character that is uppercase but not ASCII.
NonAsciiUpper == "\\u00C9"

MD == <<".", "m", "d">>

\* Option values.
None == <<"None">>
Some(v) == <<"Some", v>>
is_some(o) == o[1] = "Some"

\* The candidate regular files: path (components), the content as the
\* segments between occurrences of the placeholder, and whether reading the
\* file as text succeeds (readable, valid UTF-8).
File(path, segs, ok) == [path |-> path, segs |-> segs, ok |-> ok]

ProjectFiles ==
    { File(ProjRoot \o <<<<"f">> \o MD>>, << <<"F", " ">>, <<" ", "n">> >>, TRUE),
      File(ProjRoot \o <<<<"F">> \o MD>>, << <<"U">> >>, TRUE),
      File(ProjRoot \o <<<<"n">> \o MD \o MD>>, << <<"N">>, <<>> >>, TRUE),
      File(ProjRoot \o <<MD>>, << <<"e">> >>, TRUE) }

\* Other contents of f.md: two placeholders around a stray "$" and before
\* a partial "$A"; and a content that cannot be read as text.
AltContents ==
    { File(ProjRoot \o <<<<"f">> \o MD>>, << <<>>, <<"$">>, <<"$", "A">> >>, TRUE),
      File(ProjRoot \o <<<<"f">> \o MD>>, << <<"b">> >>, FALSE) }

\* Files only the traversal tells apart.
ListedFiles ==
    { File(ProjRoot \o <<<<"t", ".", "M", "D">>>>, << <<"t">> >>, TRUE),
      File(ProjRoot \o <<<<"d">>, <<"g">> \o MD>>, << <<"G", " ">>, <<>> >>, TRUE),
      File(ProjRoot \o <<<<"r">>, <<"s">> \o MD>>, << <<"R", " ">>, <<>> >>, TRUE),
      File(ProjRoot \o <<<<BadByte>> \o MD>>, << <<"x">> >>, TRUE),
      File(ProjRoot \o <<<<NonAsciiUpper>> \o MD>>, << <<"y">> >>, TRUE) }

UserFiles ==
    { File(HomeRoot \o <<<<"f">> \o MD>>, << <<"H", " ">>, <<>> >>, TRUE),
      File(HomeRoot \o <<<<"r">>, <<"s">> \o MD>>, << <<"S", ":", " ">>, <<>> >>, TRUE) }

\* Files outside both scope roots: <cwd>/s.md and /e/p.md.
SecretFile == File(Cwd \o <<<<"s">> \o MD>>, << <<"s", "e", "c", "r", "e", "t">> >>, TRUE)

OutsideFiles ==
    { SecretFile, File(<<<<"e">>, <<"p">> \o MD>>, << <<"r", "o", "o", "t">> >>, TRUE) }

\* The files the invocations of the model can name.
Invocable == ProjectFiles \cup AltContents \cup UserFiles \cup OutsideFiles

\* The files the traversal is run on (it reads no content).
Discoverable == ProjectFiles \cup ListedFiles \cup UserFiles \cup {SecretFile}

\* The text of a file: its segments with the placeholder between them.
content(f) == join_str(f.segs, PLACEHOLDER)

\* The proper ancestors of a path that are not the file system's root.
ancestors(path) == {SubSeq(path, 1, n) : n \in 1..(Len(path) - 1)}

\* The directories that may be unreadable (read_dir fails on them).
MaybeUnreadable == {ProjRoot \o <<<<"d">>>>, HomeRoot}

VARIABLES
    files,       \* the regular files (records of Universe, distinct paths)
    dirs,        \* the directories (component sequences)
    unreadable,  \* the directories on which read_dir fails
    home,        \* env::var("HOME"): None or Some(path string)
    cwdOk,       \* whether env::current_dir() succeeds
    pc,          \* "idle", "project", "user" (inside gather), "returned"
    op,          \* the function called: "none", "expand", "discover"
    call,        \* the invocation handed to expand_custom_command
    ret,         \* the value expand_custom_command returned
    attempted,   \* the path strings expand handed to fs::read_to_string
    source,      \* the files (components) whose content expand read
    stack,       \* gather's stack of directories
    commands,    \* discover's output vector
    iterations   \* the iterations gather's loop has run in this call

vars == <<files, dirs, unreadable, home, cwdOk, pc, op, call, ret, attempted,
          source, stack, commands, iterations>>

(* ------------------------------------------------------------------ *)
(* The operating system's view of a path                               *)
(* ------------------------------------------------------------------ *)

\* Path resolution by the kernel: ".." steps to the parent (the root is its
\* own parent), every other non-final component must be a directory.
RECURSIVE walk(_, _)
walk(parts, cur) ==
    IF parts = <<>> THEN Some(cur)
    ELSE IF Head(parts) = <<".", ".">>
         THEN walk(Tail(parts), IF cur = <<>> THEN cur ELSE SubSeq(cur, 1, Len(cur) - 1))
    ELSE IF Len(parts) = 1 THEN Some(cur \o parts)
    ELSE IF (cur \o <<Head(parts)>>) \in dirs THEN walk(Tail(parts), cur \o <<Head(parts)>>)
    ELSE None

os_resolve(p) == walk(components(p), <<>>)

\* fs::read_to_string: Ok(text) for an existing regular file whose content
\* is readable text, Err otherwise.
read_to_string(p) ==
    LET r == os_resolve(p)
        hit == IF is_some(r) THEN {f \in files : f.path = r[2] /\ f.ok} ELSE {}
    IN  IF hit = {} THEN None ELSE Some(content(CHOOSE f \in hit : TRUE))

\* Path::exists
path_exists(comps) == comps \in dirs \/ \E f \in files : f.path = comps

(* ------------------------------------------------------------------ *)
(* expand_custom_command                                               *)
(* ------------------------------------------------------------------ *)

PROJECT == <<"p", "r", "o", "j", "e", "c", "t">>
USER == <<"u", "s", "e", "r">>

\* has_trigger without the bailout: every input is parsed as a command.
has_trigger_missing(input) == TRUE

\* Line 36: the quick bailout lets only a trimmed input starting with '/' on.
has_trigger(input) == starts_with(input, <<"/">>)

\* parse_scope with the default scope "user" for a token without ':'.
parse_scope_default_user(first_token) ==
    LET idx == find(first_token, <<":">>)
    IN  IF idx # 0
        THEN <<SubSeq(first_token, 1, idx - 1), slice_from(first_token, idx + 1)>>
        ELSE <<USER, first_token>>

\* Lines 46-50: <<scope, cmd_name>> of the first token.
parse_scope(first_token) ==
    LET idx == find(first_token, <<":">>)
    IN  IF idx # 0
        THEN <<SubSeq(first_token, 1, idx - 1), slice_from(first_token, idx + 1)>>
        ELSE <<PROJECT, first_token>>

\* scope_root with the unknown scopes falling back to the project root.
scope_root_fallback(scope, cwd) ==
    IF scope = USER
    THEN IF is_some(home) THEN Some(path_join(home[2], COMMANDS_DIR)) ELSE None
    ELSE Some(path_join(cwd, COMMANDS_DIR))

\* Lines 53-63: the root directory of a scope, None when there is none.
scope_root(scope, cwd) ==
    IF scope = PROJECT THEN Some(path_join(cwd, COMMANDS_DIR))
    ELSE IF scope = USER
         THEN IF is_some(home) THEN Some(path_join(home[2], COMMANDS_DIR)) ELSE None
    ELSE None

\* Line 66: "__" becomes the separator and ".md" is appended.
relative_path(cmd_name) == replace(cmd_name, <<"_", "_">>, <<MAIN_SEPARATOR>>) \o MD

\* Line 70: the security check on the composed path.
within_root(file_path, root) == path_starts_with(file_path, root)

\* substitute as replacen(.., 1): only the first placeholder is replaced.
substitute_first(contents, args) ==
    LET idx == find(contents, PLACEHOLDER)
    IN  IF idx = 0 THEN contents
        ELSE SubSeq(contents, 1, idx - 1) \o args
               \o slice_from(contents, idx + Len(PLACEHOLDER))

\* Line 78: the placeholder substitution.
substitute(contents, args) == replace(contents, PLACEHOLDER, args)

\* The outcome of one call: the returned Option, the paths handed to
\* fs::read_to_string, and the files whose text was read.
Outcome(r, tried, src) == [ret |-> r, attempted |-> tried, source |-> src]

expand_custom_command(raw, cwd) ==
    LET input == trim(raw)
    IN  IF ~has_trigger(input) THEN Outcome(None, {}, {})
        ELSE
        LET parts == splitn2(slice_from(input, 2))
            first_token == parts[1]
            args == IF is_some(parts[2]) THEN parts[2][2] ELSE <<>>
            sc == parse_scope(first_token)
            root == scope_root(sc[1], cwd)
        IN  IF ~is_some(root) THEN Outcome(None, {}, {})
            ELSE
            LET file_path == path_join(root[2], relative_path(sc[2]))
            IN  IF ~within_root(file_path, root[2]) THEN Outcome(None, {}, {})
                ELSE
                LET contents == read_to_string(file_path)
                IN  IF ~is_some(contents) THEN Outcome(None, {file_path}, {})
                    ELSE Outcome(Some(substitute(contents[2], args)),
                                 {file_path}, {os_resolve(file_path)[2]})

(* ------------------------------------------------------------------ *)
(* The invocations the caller makes                                    *)
(* ------------------------------------------------------------------ *)

\* An invocation: whitespace around, the leading text (the trigger or
\* not), a scope prefix, a command name, and the arguments after one space.
Prefixes == { <<>>, PROJECT \o <<":">>, USER \o <<":">> }

\* Scope tokens that are neither "project" nor "user".
OtherPrefixes == { <<"U", "s", "e", "r", ":">>, <<":">>, <<"x", ":">> }

Names ==
    { <<>>, <<"f">>, <<"F">>, <<"n">>, <<"r", "_", "_", "s">>,
      <<".", ".", "_", "_", ".", ".", "_", "_", "s">>,
      <<"_", "_", "e", "_", "_", "p">> }

Arguments == { None, Some(<<"a", " ", "b">>), Some(<<" ", "q">> \o PLACEHOLDER) }

Call(lead, trigger, prefix, name, args, trail) ==
    [lead |-> lead, trigger |-> trigger, prefix |-> prefix, name |-> name,
     args |-> args, trail |-> trail]

Calls ==
    { Call(<<>>, <<"/">>, p, n, a, <<>>) : p \in Prefixes, n \in Names, a \in Arguments }
    \cup
    { Call(<<>>, <<"/">>, p, n, Some(<<"a", " ", "b">>), <<>>) : p \in OtherPrefixes, n \in Names }
    \cup
    { Call(<<"\t", " ">>, t, <<>>, <<"f">>, a, <<"\n">>) :
        t \in {<<"/">>, <<"x">>, <<>>}, a \in {None, Some(<<"a", " ", "b">>)} }
    \cup
    { Call(l, t, <<>>, n, None, l) :
        l \in {<<>>, <<" ">>}, t \in {<<"x">>, <<>>}, n \in {<<>>, <<"f">>} }

\* The input string of an invocation.
render(c) ==
    c.lead \o c.trigger \o c.prefix \o c.name
      \o (IF is_some(c.args) THEN <<" ">> \o c.args[2] ELSE <<>>) \o c.trail

NoCall == Call(<<>>, <<>>, <<>>, <<>>, None, <<>>)

(* ------------------------------------------------------------------ *)
(* discover_custom_commands                                            *)
(* ------------------------------------------------------------------ *)

\* Path::extension of a file name: the text after the last dot, None when
\* there is no dot or the only dot is the first character.
extension(name) ==
    LET dots == {i \in 1..Len(name) : name[i] = "."}
        last == CHOOSE i \in dots : \A j \in dots : i >= j
    IN  IF dots = {} \/ name = <<".", ".">> THEN None
        ELSE IF last = 1 THEN None
        ELSE Some(slice_from(name, last + 1))

\* is_md with the extension compared without regard to case.
is_md_ignore_case(path) ==
    LET e == extension(path[Len(path)])
    IN  is_some(e) /\ make_ascii_lowercase(e[2]) = <<"m", "d">>

\* Line 101: the extension is exactly "md".
is_md(path) == extension(path[Len(path)]) = Some(<<"m", "d">>)

\* Path::to_str of a relative path: None when a name is not valid UTF-8.
to_str(rel) ==
    IF \E i \in 1..Len(rel) : \E k \in 1..Len(rel[i]) : rel[i][k] = BadByte
    THEN None
    ELSE Some(join_str(rel, <<MAIN_SEPARATOR>>))

\* Line 106: the suffix ".md" is trimmed from the relative path.
strip_md(stem) == trim_end_matches(stem, MD)

\* Line 108: the command name is lowercased.
lowercase(cmd) == make_ascii_lowercase(cmd)

\* skip_unreadable as an early return: the traversal stops at the first
\* directory that cannot be read.
abort_on_unreadable(popped) == <<>>

\* Lines 95-96: a directory that cannot be read is skipped, the loop goes on
\* with the rest of the stack.
skip_unreadable(popped) == popped

\* Lines 105-108: the command name of a relative path string.
command_name(stem) ==
    lowercase(replace(strip_md(stem), <<MAIN_SEPARATOR>>, <<"_", "_">>))

\* Lines 102-110: what gather pushes for a file under root, if anything.
entry_command(path, root, scope) ==
    IF ~is_prefix(root, path) THEN None
    ELSE LET stem == to_str(SubSeq(path, Len(root) + 1, Len(path)))
         IN  IF ~is_some(stem) THEN None
             ELSE Some(scope \o <<":">> \o command_name(stem[2]))

\* fs::read_dir: the entries of a directory, None when it cannot be read.
read_dir(dir) ==
    IF dir \notin dirs \/ dir \in unreadable THEN None
    ELSE Some({d \in dirs : Len(d) = Len(dir) + 1 /\ is_prefix(dir, d)}
              \cup {f.path : f \in {g \in files : Len(g.path) = Len(dir) + 1
                                                   /\ is_prefix(dir, g.path)}})

\* The orders in which read_dir may yield a set of entries.
orders(S) ==
    {o \in [1..Cardinality(S) -> S] : \A i, j \in 1..Cardinality(S) : o[i] = o[j] => i = j}

\* Lines 97-113: the loop over the entries of one directory; yields the
\* directories pushed and the commands pushed, in order.
RECURSIVE visit_entries(_, _, _)
visit_entries(entries, root, scope) ==
    IF entries = <<>> THEN [pushed |-> <<>>, out |-> <<>>]
    ELSE LET path == Head(entries)
             rest == visit_entries(Tail(entries), root, scope)
             cmd == entry_command(path, root, scope)
         IN  IF path \in dirs
             THEN [pushed |-> <<path>> \o rest.pushed, out |-> rest.out]
             ELSE IF is_md(path) /\ is_some(cmd)
             THEN [pushed |-> rest.pushed, out |-> <<cmd[2]>> \o rest.out]
             ELSE rest

\* Lines 89-94: gather's stack after its existence check.
gather_start(root) == IF path_exists(root) THEN <<root>> ELSE <<>>

\* The root and the scope gather runs on at each position of discover.
gather_root == IF pc = "project" THEN ProjRoot
               ELSE components(path_join(home[2], COMMANDS_DIR))
gather_scope == IF pc = "project" THEN PROJECT ELSE USER

(* ------------------------------------------------------------------ *)
(* The state machine                                                   *)
(* ------------------------------------------------------------------ *)

FileSystems(U) ==
    {F \in SUBSET U :
        /\ Cardinality(F) <= MaxFiles
        /\ \A f, g \in F : f.path = g.path => f = g}

closure(S) == S \cup UNION {ancestors(d) : d \in S}

\* The directories of a file system: the two base directories, those the
\* files lie in, and the scope roots when they exist without any file.
Directories(F, extra) ==
    {Cwd, HomeDir} \cup closure(extra) \cup UNION {ancestors(f.path) : f \in F}

Idle ==
    /\ pc = "idle"
    /\ op = "none"
    /\ call = NoCall
    /\ ret = None
    /\ attempted = {}
    /\ source = {}
    /\ stack = <<>>
    /\ commands = <<>>
    /\ iterations = 0

\* The states in which the caller resolves an input line.
Init ==
    /\ files \in FileSystems(Invocable)
    /\ \E extra \in {{}, {ProjRoot, HomeRoot}} : dirs = Directories(files, extra)
    /\ unreadable = {}
    /\ home \in {None, Some(path_string(HomeDir))}
    /\ cwdOk = TRUE
    /\ Idle

\* The states in which the caller lists the commands.
DiscoverInit ==
    /\ files \in FileSystems(Discoverable)
    /\ \E extra \in {{}, {ProjRoot, HomeRoot}} : dirs = Directories(files, extra)
    /\ unreadable \in SUBSET (dirs \cap MaybeUnreadable)
    /\ home \in {None, Some(path_string(HomeDir))}
    /\ cwdOk \in BOOLEAN
    /\ Idle

env == <<files, dirs, unreadable, home, cwdOk>>

\* The caller hands an input line to expand_custom_command.
Expand ==
    /\ pc = "idle"
    /\ \E c \in Calls :
         LET o == expand_custom_command(render(c), path_string(Cwd))
         IN  /\ call' = c
             /\ ret' = o.ret
             /\ attempted' = o.attempted
             /\ source' = o.source
    /\ op' = "expand"
    /\ pc' = "returned"
    /\ UNCHANGED <<env, stack, commands, iterations>>

\* Lines 118-122: discover starts, and enters gather for the project scope
\* when the current directory is known.
DiscoverCall ==
    /\ pc = "idle"
    /\ op' = "discover"
    /\ pc' = "project"
    /\ commands' = <<>>
    /\ iterations' = 0
    /\ stack' = IF cwdOk THEN gather_start(ProjRoot) ELSE <<>>
    /\ UNCHANGED <<env, call, ret, attempted, source>>

\* Lines 95-115: one iteration of gather's loop: pop a directory, read it,
\* push its subdirectories and the commands of its markdown files.
GatherStep ==
    /\ pc \in {"project", "user"}
    /\ stack # <<>>
    /\ LET dir == stack[Len(stack)]
           popped == SubSeq(stack, 1, Len(stack) - 1)
           entries == read_dir(dir)
       IN  IF ~is_some(entries)
           THEN /\ stack' = skip_unreadable(popped)
                /\ commands' = commands
           ELSE \E o \in orders(entries[2]) :
                   LET v == visit_entries(o, gather_root, gather_scope)
                   IN  /\ stack' = popped \o v.pushed
                       /\ commands' = commands \o v.out
    /\ iterations' = iterations + 1
    /\ UNCHANGED <<env, pc, op, call, ret, attempted, source>>

\* Lines 124-130: the project scope is done; gather runs on the user scope
\* when HOME is set.
GatherUser ==
    /\ pc = "project"
    /\ stack = <<>>
    /\ pc' = "user"
    /\ stack' = IF is_some(home)
                THEN gather_start(components(path_join(home[2], COMMANDS_DIR)))
                ELSE <<>>
    /\ UNCHANGED <<env, op, call, ret, attempted, source, commands, iterations>>

\* Line 132: discover returns its vector.
DiscoverReturn ==
    /\ pc = "user"
    /\ stack = <<>>
    /\ pc' = "returned"
    /\ UNCHANGED <<env, op, call, ret, attempted, source, stack, commands, iterations>>

\* The caller invokes one of the commands discover listed, as
\* "/<scope>:<name> <args>".
Invoke ==
    /\ pc = "returned"
    /\ op = "discover"
    /\ \E i \in 1..Len(commands) : \E a \in Arguments :
         LET c == Call(<<>>, <<"/">>, <<>>, commands[i], a, <<>>)
             o == expand_custom_command(render(c), path_string(Cwd))
         IN  /\ call' = c
             /\ ret' = o.ret
             /\ attempted' = o.attempted
             /\ source' = o.source
    /\ op' = "invoke"
    /\ UNCHANGED <<env, pc, stack, commands, iterations>>

Next == Expand

Spec == Init /\ [][Next]_vars

DiscoverNext == DiscoverCall \/ GatherStep \/ GatherUser \/ DiscoverReturn \/ Invoke

DiscoverSpec == DiscoverInit /\ [][DiscoverNext]_vars

(* ------------------------------------------------------------------ *)
(* Properties                                                          *)
(* ------------------------------------------------------------------ *)

\* The root of the scope an invocation selects.
SelectedRoot(c) == IF c.prefix = USER \o <<":">> THEN HomeRoot ELSE ProjRoot

\* Whether the selected scope has a root at all.
ScopeAvailable(c) == c.prefix = USER \o <<":">> => is_some(home)

\* The argument string of an invocation.
ArgString(c) == IF is_some(c.args) THEN c.args[2] ELSE <<>>

\* The valid command names of the model and the relative path each stands for.
NameTable ==
    { [name |-> <<"f">>, rel |-> <<<<"f">> \o MD>>],
      [name |-> <<"F">>, rel |-> <<<<"F">> \o MD>>],
      [name |-> <<"n">>, rel |-> <<<<"n">> \o MD>>],
      [name |-> <<"r", "_", "_", "s">>, rel |-> <<<<"r">>, <<"s">> \o MD>>] }

ValidName(c) == \E t \in NameTable : t.name = c.name

\* The files backing an invocation under its scope root.
Backing(c) ==
    {f \in files : \E t \in NameTable : t.name = c.name /\ f.path = SelectedRoot(c) \o t.rel}

Expanded == op = "expand" /\ call.trigger = <<"/">>

\* C1: expand_custom_command never returns the content of a file outside the
\* selected scope root; names with ".." segments or an absolute path yield
\* no match.
C1_NeverReadsOutsideRoot ==
    op = "expand" => \A p \in source : is_prefix(SelectedRoot(call), p)

\* C2: for a valid name with a readable backing file the result is the
\* file's text with every placeholder replaced by the raw argument string,
\* everything else unchanged, the arguments inserted verbatim.
C2_SubstitutesEveryPlaceholder ==
    (Expanded /\ call.prefix \in Prefixes /\ ScopeAvailable(call)) =>
        \A f \in Backing(call) : f.ok => ret = Some(join_str(f.segs, ArgString(call)))

C2_Witness ==
    /\ Expanded
    /\ call.prefix \in Prefixes
    /\ ArgString(call) = <<" ", "q">> \o PLACEHOLDER
    /\ \E f \in Backing(call) : f.ok /\ Len(f.segs) = 3
    /\ is_some(ret)

\* The command a file is listed as, for each scope.
Listing(f) ==
    {entry_command(f.path, ProjRoot, PROJECT), entry_command(f.path, HomeRoot, USER)}

\* C3: the name discovery emits for a markdown file, invoked as
\* "/<scope>:<name> <args>", locates that same file.
C3_RoundTrip ==
    op = "invoke" =>
        \A f \in files : (is_md(f.path) /\ Some(call.name) \in Listing(f)) => source = {f.path}

\* C4: "/n args" and "/project:n args" return the same result.
C4_DefaultScopeIsProject ==
    (Expanded /\ call.prefix = <<>>) =>
        ret = expand_custom_command(render([call EXCEPT !.prefix = PROJECT \o <<":">>]),
                                    path_string(Cwd)).ret

C4_Witness ==
    /\ Expanded
    /\ call.prefix = <<>>
    /\ ValidName(call)
    /\ is_some(call.args)
    /\ is_some(ret)

\* C5: an invocation whose command name is empty ("/", "/ args",
\* "/project:") returns no match, whatever files exist.
C5_EmptyNameNoMatch ==
    (Expanded /\ call.prefix \in Prefixes /\ call.name = <<>>) => ret = None

\* C6 as stated: an input that does not start with '/' as the caller passes
\* it returns no match.
C6_RawInputWithoutTrigger ==
    (op = "expand" /\ ~starts_with(render(call), <<"/">>)) => ret = None

\* C6 as amended: an input that does not start with '/' once the
\* surrounding whitespace is removed returns no match, and no file is read.
C6_TrimmedInputWithoutTrigger ==
    (op = "expand" /\ call.trigger # <<"/">>) => (ret = None /\ attempted = {})

C6_Witness ==
    /\ op = "expand"
    /\ call.trigger = <<"x">>
    /\ call.name = <<"f">>
    /\ call.lead = <<>>
    /\ \E f \in files : f.ok /\ f.path = ProjRoot \o <<<<"f">> \o MD>>
    /\ ret = None

\* C7: a scope token other than "project" or "user", and a "user:" call
\* without HOME, return no match without reading a file; a missing HOME
\* leaves the project scope's results as they are.
C7_ScopeFailsClosed ==
    Expanded =>
        /\ (call.prefix \in OtherPrefixes \/ ~ScopeAvailable(call))
              => (ret = None /\ attempted = {})
        /\ (home = None /\ call.prefix \in {<<>>, PROJECT \o <<":">>} /\ ValidName(call))
              => (is_some(ret) <=> \E f \in Backing(call) : f.ok)

C7_Witness ==
    /\ Expanded
    /\ call.prefix = <<"U", "s", "e", "r", ":">>
    /\ call.name = <<"f">>
    /\ \E f \in files : f.ok /\ f.path = ProjRoot \o <<<<"f">> \o MD>>
    /\ \E f \in files : f.ok /\ f.path = HomeRoot \o <<<<"f">> \o MD>>
    /\ is_some(home)
    /\ ret = None

\* A file name that ends in the extension ".md".
EndsWithMd(path) ==
    LET name == path[Len(path)]
    IN  Len(name) > 3 /\ SubSeq(name, Len(name) - 2, Len(name)) = MD

\* The files under a root, and those the traversal can see: every directory
\* from the root down to the file can be read and the names are valid UTF-8.
Under(root, f) == Len(f.path) > Len(root) /\ is_prefix(root, f.path)

Visible(root, f) ==
    /\ Under(root, f)
    /\ \A n \in Len(root)..(Len(f.path) - 1) : SubSeq(f.path, 1, n) \notin unreadable
    /\ \A i \in 1..Len(f.path) : \A k \in 1..Len(f.path[i]) : f.path[i][k] # BadByte

\* The number of entries of the output that carry a scope prefix.
Count(scope) ==
    Cardinality({i \in 1..Len(commands) : is_prefix(scope \o <<":">>, commands[i])})

Returned == pc = "returned"

\* C8 as stated: one entry for every file with the extension ".md" under a
\* scope root, none for anything else, the scopes not deduplicated.
C8_OneEntryPerMarkdownFile ==
    Returned =>
        /\ Count(PROJECT) = IF cwdOk
             THEN Cardinality({f \in files : Under(ProjRoot, f) /\ EndsWithMd(f.path)}) ELSE 0
        /\ Count(USER) = IF is_some(home)
             THEN Cardinality({f \in files : Under(HomeRoot, f) /\ EndsWithMd(f.path)}) ELSE 0
        /\ Len(commands) = Count(PROJECT) + Count(USER)

\* C8 as amended: one entry for every file with the extension ".md" that
\* lies under a scope root in directories that can be read and whose path is
\* valid UTF-8; none for anything else, the scopes not deduplicated.
C8_OneEntryPerVisibleMarkdownFile ==
    Returned =>
        /\ Count(PROJECT) = IF cwdOk
             THEN Cardinality({f \in files : Visible(ProjRoot, f) /\ EndsWithMd(f.path)}) ELSE 0
        /\ Count(USER) = IF is_some(home)
             THEN Cardinality({f \in files : Visible(HomeRoot, f) /\ EndsWithMd(f.path)}) ELSE 0
        /\ Len(commands) = Count(PROJECT) + Count(USER)

C8_Witness ==
    /\ Returned
    /\ \E i, j \in 1..Len(commands) :
          /\ commands[i] = PROJECT \o <<":", "f">>
          /\ commands[j] = USER \o <<":", "f">>

\* C9: discovery never fails as a whole: its loop only ever holds
\* directories of the scope at hand and runs at most once for each
\* directory, so it returns; a scope without a root, without HOME or without
\* a current directory contributes nothing, a directory that cannot be read
\* is skipped, and none of this removes an entry of the other scope or of a
\* readable sibling directory.
C9_DiscoveryNeverFails ==
    /\ \A i \in 1..Len(stack) :
          /\ pc \in {"project", "user"}
          /\ stack[i] \in dirs
          /\ is_prefix(IF pc = "project" THEN ProjRoot ELSE HomeRoot, stack[i])
    /\ iterations <= Cardinality(dirs)
    /\ Returned =>
          /\ (~cwdOk \/ ProjRoot \notin dirs) => Count(PROJECT) = 0
          /\ (~is_some(home) \/ HomeRoot \notin dirs) => Count(USER) = 0
          /\ cwdOk => Count(PROJECT) >=
               Cardinality({f \in files : Visible(ProjRoot, f) /\ EndsWithMd(f.path)})
          /\ is_some(home) => Count(USER) >=
               Cardinality({f \in files : Visible(HomeRoot, f) /\ EndsWithMd(f.path)})

C9_Witness ==
    /\ Returned
    /\ (ProjRoot \o <<<<"d">>>>) \in unreadable
    /\ \E i \in 1..Len(commands) : commands[i] = PROJECT \o <<":", "r", "_", "_", "s">>

\* Lowercasing of every uppercase character of the model's alphabet.
FullLower(c) ==
    CASE c = "F" -> "f"
      [] c = "M" -> "m"
      [] c = "D" -> "d"
      [] c = NonAsciiUpper -> "\\u00E9"
      [] OTHER -> c

\* The name C10 describes: separators become "__", one trailing ".md" is
\* removed, every character is lowercased.
DescribedName(rel) ==
    LET joined == join_str(rel, <<"_", "_">>)
        stem == SubSeq(joined, 1, Len(joined) - Len(MD))
    IN  [i \in 1..Len(stem) |-> FullLower(stem[i])]

\* C10: the name emitted for a file is its relative path with separators
\* replaced by "__", the one trailing ".md" stripped, and all of it
\* lowercased.
C10_EmittedName ==
    Returned =>
        \A f \in files : (cwdOk /\ Visible(ProjRoot, f) /\ EndsWithMd(f.path)) =>
            \E i \in 1..Len(commands) :
                commands[i] = PROJECT \o <<":">>
                    \o DescribedName(SubSeq(f.path, Len(ProjRoot) + 1, Len(f.path)))

====
